---- MODULE Spec2Model ----
(***************************************************************************)
(* A model of trenskow/api-error (src/index.js): the ApiError base class,  *)
(* its 12 simple variants, the Aggregated variant, ApiError.parse and      *)
(* toJSON.                                                                 *)
(*                                                                         *)
(* Representation of JavaScript values:                                    *)
(*  - a mapping (plain object, options bag, JSON body) is a function whose *)
(*    DOMAIN is the set of keys that hold a defined value; a key holding   *)
(*    `undefined` and a missing key read the same and are both modelled as *)
(*    a missing key;                                                       *)
(*  - the strings the code converts (`name`, string `keyPath`) are         *)
(*    sequences of one-character strings, so that split / join /           *)
(*    toLowerCase are computed and not assumed;                            *)
(*  - a keyPath value is tagged: a string (text) or an array (segs);       *)
(*  - an instance is a mapping with a `type` (its class) and the private   *)
(*    fields the constructor sets (`message`, `name`, `entity`,            *)
(*    `statusCode`, `stacked`, `stack`, `keyPath`, `origin`, `underlying`, *)
(*    `options`, and `errors` for Aggregated);                             *)
(*  - a value that is no ApiError (42) is a mapping with only `type`.      *)
(* Operators that mutate an object they were handed return the object's    *)
(* state after the call next to their result.                              *)
(***************************************************************************)
EXTENDS Integers, Sequences, FiniteSets, TLC

VARIABLES
    err,      \* the instance the last constructor call returned (or NoValue)
    arg0,     \* the caller's mapping as handed to the last constructor / parse
    arg,      \* the same caller's mapping after that call returned
    last,     \* what the last call was: op, class, arguments, threw
    json,     \* the outcome of the last toJSON call on err
    parsed,   \* the instance the last ApiError.parse call returned
    assigned, \* history: the collection last successfully assigned to errors
    appended  \* history: the elements of the successful add calls since then

vars == <<err, arg0, arg, last, json, parsed, assigned, appended>>

(***************************************************************************)
(* Bounds of the model.                                                    *)
(***************************************************************************)
\* at most this many option keys are supplied in one constructor call
MaxKeys == 2
\* underlying chains are built up to this many wrappers
MaxChain == 3
\* an Aggregated's errors collection is grown up to this length
MaxErrors == 4

(***************************************************************************)
(* Mappings.                                                               *)
(***************************************************************************)
Has(o, k) == k \in DOMAIN o

EmptyMap == <<>>

Delete(o, keys) == [k \in (DOMAIN o) \ keys |-> o[k]]

Put(o, k, v) == (k :> v) @@ o

\* extensional equality of two mappings
SameMap(a, b) == DOMAIN a = DOMAIN b /\ \A k \in DOMAIN a : a[k] = b[k]

NoValue == [type |-> "none"]

(***************************************************************************)
(* Strings as character sequences.                                         *)
(***************************************************************************)
UpperCase == <<"A", "B", "C", "D", "E", "F", "G", "H", "I", "J", "K", "L", "M",
               "N", "O", "P", "Q", "R", "S", "T", "U", "V", "W", "X", "Y", "Z">>
LowerCase == <<"a", "b", "c", "d", "e", "f", "g", "h", "i", "j", "k", "l", "m",
               "n", "o", "p", "q", "r", "s", "t", "u", "v", "w", "x", "y", "z">>

IsUpper(c) == \E i \in DOMAIN UpperCase : UpperCase[i] = c

\* String.prototype.toLowerCase, one character
ToLower(c) ==
    IF IsUpper(c)
    THEN LowerCase[CHOOSE i \in DOMAIN UpperCase : UpperCase[i] = c]
    ELSE c

\* s.split('.') : the segments between the dots; ''.split('.') is ['']
RECURSIVE SplitDots(_)
SplitDots(s) ==
    IF \E i \in DOMAIN s : s[i] = "."
    THEN LET i == CHOOSE j \in DOMAIN s :
                     s[j] = "." /\ \A h \in 1..(j - 1) : s[h] # "."
         IN  <<SubSeq(s, 1, i - 1)>> \o SplitDots(SubSeq(s, i + 1, Len(s)))
    ELSE <<s>>

\* a join with another separator than the one split uses
RECURSIVE JoinSlashes(_)
JoinSlashes(segs) ==
    IF Len(segs) = 0 THEN <<>>
    ELSE IF Len(segs) = 1 THEN segs[1]
    ELSE segs[1] \o <<"/">> \o JoinSlashes(Tail(segs))

\* segs.join('.')
RECURSIVE JoinDots(_)
JoinDots(segs) ==
    IF Len(segs) = 0 THEN <<>>
    ELSE IF Len(segs) = 1 THEN segs[1]
    ELSE segs[1] \o <<".">> \o JoinDots(Tail(segs))

\* name.split(/(?=[A-Z])/).join('-').toLowerCase() : a dash before every
\* upper-case letter but the first character, everything lower-cased
RECURSIVE KebabFrom(_, _)
KebabFrom(s, i) ==
    IF i > Len(s) THEN <<>>
    ELSE (IF i > 1 /\ IsUpper(s[i]) THEN <<"-">> ELSE <<>>)
         \o <<ToLower(s[i])>> \o KebabFrom(s, i + 1)

KebabCase(s) == KebabFrom(s, 1)

KeyPathString(text) == [isString |-> TRUE, text |-> text, segs |-> <<>>]
KeyPathArray(segs) == [isString |-> FALSE, text |-> <<>>, segs |-> segs]

(***************************************************************************)
(* The wire names the source spells out, as character sequences.           *)
(***************************************************************************)
\* 'not-authorized'
NotAuthorizedName ==
    <<"n", "o", "t", "-", "a", "u", "t", "h", "o", "r", "i", "z", "e", "d">>
\* 'payment-required'
PaymentRequiredName ==
    <<"p", "a", "y", "m", "e", "n", "t", "-", "r", "e", "q", "u", "i", "r", "e", "d">>
\* 'forbidden'
ForbiddenName ==
    <<"f", "o", "r", "b", "i", "d", "d", "e", "n">>
\* 'not-found'
NotFoundName ==
    <<"n", "o", "t", "-", "f", "o", "u", "n", "d">>
\* 'already-exists'
ConflictName ==
    <<"a", "l", "r", "e", "a", "d", "y", "-", "e", "x", "i", "s", "t", "s">>
\* 'method-not-allowed'
MethodNotAllowedName ==
    <<"m", "e", "t", "h", "o", "d", "-", "n", "o", "t", "-", "a", "l", "l", "o", "w", "e", "d">>
\* 'bad-request'
BadRequestName ==
    <<"b", "a", "d", "-", "r", "e", "q", "u", "e", "s", "t">>
\* 'too-many-requests'
TooManyRequestsName ==
    <<"t", "o", "o", "-", "m", "a", "n", "y", "-", "r", "e", "q", "u", "e", "s", "t", "s">>
\* 'payload-too-large'
PayloadTooLargeName ==
    <<"p", "a", "y", "l", "o", "a", "d", "-", "t", "o", "o", "-", "l", "a", "r", "g", "e">>
\* 'internal-error'
InternalErrorName ==
    <<"i", "n", "t", "e", "r", "n", "a", "l", "-", "e", "r", "r", "o", "r">>
\* 'not-implemented'
NotImplementedName ==
    <<"n", "o", "t", "-", "i", "m", "p", "l", "e", "m", "e", "n", "t", "e", "d">>
\* 'service-unavailable'
ServiceUnavailableName ==
    <<"s", "e", "r", "v", "i", "c", "e", "-", "u", "n", "a", "v", "a", "i", "l", "a", "b", "l", "e">>
\* 'aggregated'
AggregatedName ==
    <<"a", "g", "g", "r", "e", "g", "a", "t", "e", "d">>

(***************************************************************************)
(* Classes.                                                                *)
(***************************************************************************)
FixedNameVariants == {"NotAuthorized", "PaymentRequired", "Forbidden"}

NameOverrideVariants ==
    {"NotFound", "Conflict", "MethodNotAllowed", "BadRequest", "TooManyRequests",
     "PayloadTooLarge", "InternalError", "NotImplemented", "ServiceUnavailable"}

SimpleVariants == FixedNameVariants \cup NameOverrideVariants

Variants == SimpleVariants \cup {"Aggregated"}

Classes == Variants \cup {"ApiError"}

\* the class a class extends; ApiError extends Error, and so on up to null
SuperClass(cls) ==
    IF cls \in Variants THEN "ApiError"
    ELSE IF cls = "ApiError" THEN "Error"
    ELSE IF cls = "Object" THEN "null"
    ELSE "Object"

\* static _type(name)
Type(name) ==
    CASE name = NotAuthorizedName -> "NotAuthorized"
      [] name = PaymentRequiredName -> "PaymentRequired"
      [] name = ForbiddenName -> "Forbidden"
      [] name = NotFoundName -> "NotFound"
      [] name = ConflictName -> "Conflict"
      [] name = MethodNotAllowedName -> "MethodNotAllowed"
      [] name = BadRequestName -> "BadRequest"
      [] name = TooManyRequestsName -> "TooManyRequests"
      [] name = PayloadTooLargeName -> "PayloadTooLarge"
      [] name = InternalErrorName -> "InternalError"
      [] name = NotImplementedName -> "NotImplemented"
      [] name = ServiceUnavailableName -> "ServiceUnavailable"
      [] name = AggregatedName -> "Aggregated"
      [] OTHER -> "ApiError"

\* the name literal of each variant constructor
VariantName(cls) ==
    CASE cls = "NotAuthorized" -> NotAuthorizedName
      [] cls = "PaymentRequired" -> PaymentRequiredName
      [] cls = "Forbidden" -> ForbiddenName
      [] cls = "NotFound" -> NotFoundName
      [] cls = "Conflict" -> ConflictName
      [] cls = "MethodNotAllowed" -> MethodNotAllowedName
      [] cls = "BadRequest" -> BadRequestName
      [] cls = "TooManyRequests" -> TooManyRequestsName
      [] cls = "PayloadTooLarge" -> PayloadTooLargeName
      [] cls = "InternalError" -> InternalErrorName
      [] cls = "NotImplemented" -> NotImplementedName
      [] cls = "ServiceUnavailable" -> ServiceUnavailableName
      [] cls = "Aggregated" -> AggregatedName

\* the statusCode literal of each variant constructor
VariantStatusCode(cls) ==
    CASE cls = "NotAuthorized" -> 401
      [] cls = "PaymentRequired" -> 402
      [] cls = "Forbidden" -> 403
      [] cls = "NotFound" -> 404
      [] cls = "Conflict" -> 409
      [] cls = "MethodNotAllowed" -> 405
      [] cls = "BadRequest" -> 400
      [] cls = "TooManyRequests" -> 429
      [] cls = "PayloadTooLarge" -> 413
      [] cls = "InternalError" -> 500
      [] cls = "NotImplemented" -> 501
      [] cls = "ServiceUnavailable" -> 503
      [] cls = "Aggregated" -> 400

\* the message literal of each variant constructor (message || '...')
VariantMessage(cls) ==
    CASE cls = "NotAuthorized" -> "Not authorized."
      [] cls = "PaymentRequired" -> "Payment required."
      [] cls = "Forbidden" -> "Forbidden."
      [] cls = "NotFound" -> "Resource not found."
      [] cls = "Conflict" -> "Resource already exists."
      [] cls = "MethodNotAllowed" -> "Method is not allowed."
      [] cls = "BadRequest" -> "Bad request"
      [] cls = "TooManyRequests" -> "Too many requests."
      [] cls = "PayloadTooLarge" -> "Payload too large."
      [] cls = "InternalError" -> "Internal server error."
      [] cls = "NotImplemented" -> "Not implemented."
      [] cls = "ServiceUnavailable" -> "Service unavailable."
      [] cls = "Aggregated" -> "Multiple errors occurred."

(***************************************************************************)
(* The two imported utilities, by their contracts.                         *)
(***************************************************************************)
\* merge(target, ...sources): right-biased merge into target, which is
\* returned; the sources are not mutated.  Every call in the source passes a
\* fresh {} as target, and the keys two sources share hold scalars, so the
\* deep part of the merge is never exercised; a value under a key that only
\* one source has is passed through as it is.
RECURSIVE Merge(_, _)
Merge(target, sources) ==
    IF Len(sources) = 0 THEN target
    ELSE Merge(sources[1] @@ target, Tail(sources))

\* stack(rawStackText): one structured frame per line of the captured stack
StackToJSON(raw) == [i \in DOMAIN raw |-> [frame |-> raw[i]]]

(***************************************************************************)
(* Constructors.  A call is [form, message, options]: form says which      *)
(* arguments were passed, "none" (), "message" (message), "options"        *)
(* (options) or "both" (message, options).                                 *)
(***************************************************************************)
Call(form, message, options) ==
    [form |-> form, message |-> message, options |-> options]

\* `o.k || default` takes the default when o.k is undefined, '' or 0
TruthyString(o, k) == Has(o, k) /\ o[k] # ""
TruthyChars(o, k) == Has(o, k) /\ Len(o[k]) > 0
TruthyNumber(o, k) == Has(o, k) /\ o[k] # 0

\* static _correctArguments(message, options): the (message, options) pair;
\* message is left out when it is undefined, and options is the caller's
\* own object whenever the caller passed one
CorrectArguments(call) ==
    IF call.form = "options"
    THEN [options |-> call.options]
         @@ (IF Has(call.options, "message")
             THEN [message |-> call.options.message] ELSE EmptyMap)
    ELSE [options |-> IF call.form = "both" THEN call.options ELSE EmptyMap]
         @@ (IF call.form \in {"message", "both"}
             THEN [message |-> call.message] ELSE EmptyMap)

\* the deletes a constructor would do if it removed every key it reads
DeletedKeysAllReserved ==
    {"message", "name", "entity", "statusCode", "stack", "keyPath", "origin",
     "underlying"}

\* the keys the constructor deletes from options
DeletedKeys == {"message", "name", "entity", "statusCode", "stack"}

Field(o, k, field) == IF Has(o, k) THEN (field :> o[k]) ELSE EmptyMap

\* constructor(message, options) of ApiError, run for an instance of class
\* cls, capturing the raw stack `raw`.  inst is the new instance; options is
\* the options object after the constructor's deletes and its keyPath
\* rewrite: the caller's own object when the caller passed one.
ApiErrorCtor(cls, call, raw) ==
    LET ca == CorrectArguments(call)
        given == ca.options
        deleted == Delete(given, DeletedKeys)
        bag == IF Has(deleted, "keyPath") /\ deleted.keyPath.isString
               THEN Put(deleted, "keyPath",
                        KeyPathArray(SplitDots(deleted.keyPath.text)))
               ELSE deleted
    IN  [inst |->
            [type |-> cls,
             statusCode |-> IF TruthyNumber(given, "statusCode")
                            THEN given.statusCode ELSE 500,
             stack |-> raw,
             options |-> bag]
            @@ Field(ca, "message", "message")
            @@ Field(given, "name", "name")
            @@ Field(given, "entity", "entity")
            @@ Field(given, "stack", "stacked")
            @@ Field(bag, "keyPath", "keyPath")
            @@ Field(bag, "origin", "origin")
            @@ Field(bag, "underlying", "underlying"),
         options |-> bag]

\* variant defaults that never honour the caller's name
VariantDefaultsFixedName(cls, options) ==
    [name |-> VariantName(cls), statusCode |-> VariantStatusCode(cls)]

\* the third argument of merge in a variant constructor
VariantDefaults(cls, options) ==
    [name |-> IF cls \notin FixedNameVariants /\ TruthyChars(options, "name")
              THEN options.name ELSE VariantName(cls),
     statusCode |-> VariantStatusCode(cls)]

\* a merge with the defaults below the caller's options
VariantOptionsCallerWins(cls, options) ==
    Merge(EmptyMap, <<VariantDefaults(cls, options), options>>)

\* the options object a variant constructor hands to super()
VariantOptions(cls, options) ==
    Merge(EmptyMap, <<options, VariantDefaults(cls, options)>>)

\* a variant constructor that writes the defaults into the caller's object
\* and hands that object to super()
VariantCtorInPlace(cls, call, raw) ==
    LET ca == CorrectArguments(call)
        message == IF TruthyString(ca, "message") THEN ca.message
                   ELSE VariantMessage(cls)
        super == ApiErrorCtor(cls,
                     Call("both", message,
                          VariantDefaults(cls, ca.options) @@ ca.options), raw)
    IN  [inst |-> super.inst, options |-> super.options]

\* constructor(message, options) of a variant.  The object super() mutates
\* is the merged copy, so the caller's object is as it was.
VariantCtor(cls, call, raw) ==
    LET ca == CorrectArguments(call)
        message == IF TruthyString(ca, "message") THEN ca.message
                   ELSE VariantMessage(cls)
        super == ApiErrorCtor(cls,
                     Call("both", message, VariantOptions(cls, ca.options)), raw)
    IN  [inst |-> super.inst, options |-> ca.options]

\* this._errors = options.underlying?.errors || options.errors || []
InitialErrors(options) ==
    IF Has(options, "underlying") /\ Has(options.underlying, "errors")
    THEN options.underlying.errors
    ELSE IF Has(options, "errors") THEN options.errors
    ELSE <<>>

\* constructor(message, options) of Aggregated
AggregatedCtor(call, raw) ==
    LET ca == CorrectArguments(call)
        super == VariantCtor("Aggregated", call, raw)
    IN  [inst |-> Put(super.inst, "errors", InitialErrors(ca.options)),
         options |-> super.options]

\* new cls(...call)
New(cls, call, raw) ==
    IF cls = "ApiError" THEN ApiErrorCtor(cls, call, raw)
    ELSE IF cls = "Aggregated" THEN AggregatedCtor(call, raw)
    ELSE VariantCtor(cls, call, raw)

(***************************************************************************)
(* Getters.                                                                *)
(***************************************************************************)
\* get actual()
Actual(e) ==
    IF Has(e, "underlying")
    THEN IF Has(e.underlying, "underlying")
         THEN e.underlying.underlying
         ELSE e.underlying
    ELSE e

\* get stacked()
Stacked(e) ==
    LET a == Actual(e)
    IN  IF Has(a, "stacked") THEN a.stacked ELSE StackToJSON(a.stack)

(***************************************************************************)
(* toJSON.  The outcome of a call is [threw, value].                       *)
(***************************************************************************)
Returned(v) == [threw |-> FALSE, value |-> v]
Threw == [threw |-> TRUE, value |-> EmptyMap]

\* ApiError.prototype.toJSON(options)
BaseToJSON(e, includeStack) ==
    (IF TruthyChars(e, "name") THEN [name |-> KebabCase(e.name)] ELSE EmptyMap)
    @@ Field(e, "message", "message")
    @@ Field(e, "entity", "entity")
    @@ (IF Has(e, "keyPath") /\ Len(e.keyPath.segs) > 0
        THEN [keyPath |-> KeyPathString(JoinDots(e.keyPath.segs))]
        ELSE EmptyMap)
    @@ (IF includeStack THEN [stack |-> Stacked(e)] ELSE EmptyMap)

\* x.toJSON(options), dispatched on the class of x: Aggregated overrides
\* toJSON and maps it over its children, every other ApiError inherits the
\* base method, and a value that is no ApiError has no toJSON to call
RECURSIVE ToJSON(_, _)
ToJSON(x, includeStack) ==
    IF x.type = "Aggregated"
    THEN LET kids == [i \in DOMAIN x.errors |-> ToJSON(x.errors[i], includeStack)]
         IN  IF \E i \in DOMAIN kids : kids[i].threw
             THEN Threw
             ELSE Returned(Merge(EmptyMap,
                      <<BaseToJSON(x, includeStack),
                        [errors |-> [i \in DOMAIN kids |-> kids[i].value]]>>))
    ELSE IF x.type \in Classes
    THEN Returned(BaseToJSON(x, includeStack))
    ELSE Threw

(***************************************************************************)
(* ApiError.parse.                                                         *)
(***************************************************************************)
\* a lookup name without the 'bad-request' default
ParseTypeNameNoDefault(data) ==
    IF Has(data, "name") THEN data.name ELSE <<>>

\* data.name || 'bad-request'
ParseTypeName(data) ==
    IF TruthyChars(data, "name") THEN data.name ELSE BadRequestName

\* static parse(data, statusCode, origin), run with the raw stack `raw`.
\* inst is the instance returned; data is the caller's mapping after the
\* call: every write of parse and of the constructor it calls goes to the
\* merged copy.
RECURSIVE Parse(_, _, _, _)
Parse(data, statusCode, origin, raw) ==
    LET merged == Merge(EmptyMap,
                     <<data,
                       Field(data, "message", "message")
                       @@ [statusCode |-> statusCode, origin |-> origin]>>)
        options == IF Has(merged, "errors")
                   THEN Put(merged, "errors",
                            [i \in DOMAIN merged.errors |->
                                Parse(merged.errors[i], statusCode, origin, raw).inst])
                   ELSE merged
        cls == Type(ParseTypeName(data))
    IN  [inst |-> New(cls, Call("options", "", options), raw).inst,
         data |-> data]

(***************************************************************************)
(* Aggregated: _check, add, set errors.  An argument is [isArray, items]:  *)
(* an array of items, or the single value items[1].                        *)
(***************************************************************************)
\* the prototype walk of _check: some class on the chain is named ApiError
RECURSIVE HasApiErrorPrototype(_)
HasApiErrorPrototype(cls) ==
    IF cls = "null" THEN FALSE
    ELSE IF cls = "ApiError" THEN TRUE
    ELSE HasApiErrorPrototype(SuperClass(cls))

\* _check(errors): the array itself, or a TypeError
Check(errors) ==
    IF errors.isArray
       /\ \A i \in DOMAIN errors.items : HasApiErrorPrototype(errors.items[i].type)
    THEN Returned(errors.items)
    ELSE Threw

\* an add that appends the valid elements before it throws
AddValidPrefix(e, error) ==
    LET valid == SelectSeq(error.items, LAMBDA x : HasApiErrorPrototype(x.type))
    IN  [threw |-> Len(valid) < Len(error.items),
         inst |-> Put(e, "errors", e.errors \o valid)]

\* add(error): [threw, inst], inst being the instance after the call
Add(e, error) ==
    LET checked == Check([isArray |-> TRUE, items |-> error.items])
    IN  IF checked.threw
        THEN [threw |-> TRUE, inst |-> e]
        ELSE [threw |-> FALSE, inst |-> Put(e, "errors", e.errors \o checked.value)]

\* set errors(errors)
SetErrors(e, errors) ==
    LET checked == Check(errors)
    IN  IF checked.threw
        THEN [threw |-> TRUE, inst |-> e]
        ELSE [threw |-> FALSE, inst |-> Put(e, "errors", checked.value)]

(***************************************************************************)
(* Inputs.                                                                 *)
(***************************************************************************)
CustomName == <<"c", "u", "s", "t", "o", "m">>
CamelName == <<"N", "o", "t", "F", "o", "u", "n", "d">>
UnknownName == <<"t", "e", "a", "p", "o", "t">>

\* a structured stack received from elsewhere
RemoteStack == StackToJSON(<<"at remote">>)

\* a value that is no ApiError: 42
NotAnError == [type |-> "Number"]

InnerError ==
    New("NotFound", Call("both", "inner", [entity |-> "user"]), <<"at inner">>).inst

InnerAggregated ==
    New("Aggregated", Call("options", "", [errors |-> <<InnerError>>]),
        <<"at inner">>).inst

\* the values each option key is given
OptionValues ==
    [message |-> {"boom", ""},
     name |-> {CustomName, CamelName, <<>>},
     entity |-> {"user"},
     statusCode |-> {0, 418},
     stack |-> {RemoteStack},
     keyPath |-> {KeyPathString(<<"a", ".", "b">>), KeyPathArray(<<>>),
                  KeyPathArray(<<<<"a", ".", "b">>>>),
                  KeyPathArray(<<<<"a">>, <<"b">>>>)},
     origin |-> {"gateway"},
     underlying |-> {InnerError, InnerAggregated},
     errors |-> {<<InnerError>>, <<InnerError, NotAnError>>},
     retryAfter |-> {30}]

OptionKeys ==
    <<"message", "name", "entity", "statusCode", "stack", "keyPath", "origin",
      "underlying", "errors", "retryAfter">>

\* the options mappings over the keys from the i-th on, with at most `budget`
\* keys supplied
RECURSIVE OptionsFrom(_, _)
OptionsFrom(i, budget) ==
    IF i > Len(OptionKeys) THEN {EmptyMap}
    ELSE OptionsFrom(i + 1, budget)
         \cup (IF budget = 0 THEN {}
               ELSE {Put(o, OptionKeys[i], v) :
                        v \in OptionValues[OptionKeys[i]],
                        o \in OptionsFrom(i + 1, budget - 1)})

\* the options mappings: at most MaxKeys of the keys, each with one value
AllOptions == OptionsFrom(1, MaxKeys)

\* the ways a constructor is called
Calls ==
    {Call("none", "", EmptyMap), Call("message", "boom", EmptyMap)}
    \cup {Call("options", "", o) : o \in AllOptions}
    \cup {Call("both", "boom", o) : o \in AllOptions}

PassesOptions(call) == call.form \in {"options", "both"}

WireNames ==
    {NotAuthorizedName, PaymentRequiredName, ForbiddenName, NotFoundName,
     ConflictName, MethodNotAllowedName, BadRequestName, TooManyRequestsName,
     PayloadTooLargeName, InternalErrorName, NotImplementedName,
     ServiceUnavailableName, AggregatedName}

\* bodies received over the wire
WireExtras ==
    {EmptyMap,
     [keyPath |-> KeyPathString(<<"a", ".", "b">>)],
     [statusCode |-> 200],
     [retryAfter |-> 30],
     [errors |-> <<[name |-> NotFoundName, message |-> "child"]>>]}

WireData ==
    {n @@ m @@ x :
        n \in {EmptyMap} \cup {[name |-> w] : w \in WireNames \cup {UnknownName, CustomName, <<>>}},
        m \in {EmptyMap, [message |-> "x"]},
        x \in WireExtras}

StatusCodes == {0, 404, 418}

Origins == {"gateway"}

(***************************************************************************)
(* State.                                                                  *)
(***************************************************************************)
NoJSON == [done |-> FALSE, threw |-> FALSE, value |-> EmptyMap, includeStack |-> FALSE]

Last(op, cls, form, statusCode, threw, input) ==
    [op |-> op, cls |-> cls, form |-> form, statusCode |-> statusCode,
     threw |-> threw, input |-> input]

Init ==
    /\ err = NoValue
    /\ arg0 = EmptyMap
    /\ arg = EmptyMap
    /\ last = Last("none", "none", "none", 0, FALSE, <<>>)
    /\ json = NoJSON
    /\ parsed = NoValue
    /\ assigned = <<>>
    /\ appended = <<>>

(***************************************************************************)
(* Construction, serialization and parsing.                                *)
(***************************************************************************)
\* a scenario is one construction, then one toJSON, then one parse of that
\* JSON; or one parse of a received body
Fresh == last.op = "none"

\* err = new cls(...call)
Construct(cls, call) ==
    LET r == New(cls, call, <<"at caller">>)
    IN  /\ err' = r.inst
        /\ arg0' = IF PassesOptions(call) THEN call.options ELSE EmptyMap
        /\ arg' = IF PassesOptions(call) THEN r.options ELSE EmptyMap
        /\ last' = Last("new", cls, call.form, 0, FALSE, <<>>)
        /\ json' = NoJSON
        /\ parsed' = NoValue
        /\ UNCHANGED <<assigned, appended>>

\* json = err.toJSON({includeStack})
Serialize(includeStack) ==
    /\ err # NoValue
    /\ ~json.done
    /\ LET r == ToJSON(err, includeStack)
       IN  /\ json' = [done |-> TRUE, threw |-> r.threw, value |-> r.value,
                       includeStack |-> includeStack]
           /\ last' = Last("toJSON", err.type, "none", 0, r.threw, <<>>)
    /\ parsed' = NoValue
    /\ UNCHANGED <<err, arg0, arg, assigned, appended>>

\* parsed = ApiError.parse(json, statusCode, origin)
ParseJSON(statusCode, origin) ==
    /\ err # NoValue
    /\ parsed = NoValue
    /\ json.done
    /\ ~json.threw
    /\ LET r == Parse(json.value, statusCode, origin, <<"at ApiError.parse", "at client">>)
       IN  /\ parsed' = r.inst
           /\ arg0' = json.value
           /\ arg' = r.data
    /\ last' = Last("parse", "ApiError", "none", statusCode, FALSE, <<>>)
    /\ UNCHANGED <<err, json, assigned, appended>>

\* parsed = ApiError.parse(data, statusCode, origin) on a received body
ParseData(data, statusCode, origin) ==
    /\ LET r == Parse(data, statusCode, origin, <<"at ApiError.parse", "at client">>)
       IN  /\ parsed' = r.inst
           /\ arg0' = data
           /\ arg' = r.data
    /\ last' = Last("parseData", "ApiError", "none", statusCode, FALSE, <<>>)
    /\ err' = NoValue
    /\ json' = NoJSON
    /\ UNCHANGED <<assigned, appended>>

\* the statusCode the instance at hand carries, as a response would
OwnStatusCode == IF Has(err, "statusCode") THEN {err.statusCode} ELSE {}

Next ==
    \/ /\ Fresh
       /\ \E cls \in Classes, call \in Calls : Construct(cls, call)
    \/ \E includeStack \in BOOLEAN : Serialize(includeStack)
    \/ \E statusCode \in StatusCodes \cup OwnStatusCode, origin \in Origins :
           ParseJSON(statusCode, origin)
    \/ /\ Fresh
       /\ \E data \in WireData, statusCode \in StatusCodes, origin \in Origins :
              ParseData(data, statusCode, origin)

Spec == Init /\ [][Next]_vars

(***************************************************************************)
(* Chains of underlying errors.                                            *)
(***************************************************************************)
ChainClasses == {"ApiError", "NotFound", "InternalError"}

\* the number of underlying links below e
RECURSIVE Depth(_)
Depth(e) == IF Has(e, "underlying") THEN 1 + Depth(e.underlying) ELSE 0

\* the raw stack captured d wrappers above the root
RawAt(d) == [i \in 1..(d + 1) |-> "at wrap"]

StackOption(withStack) == IF withStack THEN [stack |-> RemoteStack] ELSE EmptyMap

\* err = new cls('root', {stack?})
StartChain(cls, withStack) ==
    LET call == Call("both", "root", StackOption(withStack))
        r == New(cls, call, RawAt(0))
    IN  /\ err' = r.inst
        /\ arg0' = call.options
        /\ arg' = r.options
        /\ last' = Last("new", cls, call.form, 0, FALSE, <<>>)
        /\ UNCHANGED <<json, parsed, assigned, appended>>

\* err = new cls('wrapper', {underlying: err, stack?})
Wrap(cls, withStack) ==
    /\ err # NoValue
    /\ Depth(err) < MaxChain
    /\ LET call == Call("both", "wrapper",
                       [underlying |-> err] @@ StackOption(withStack))
           r == New(cls, call, RawAt(Depth(err) + 1))
       IN  /\ err' = r.inst
           /\ arg0' = call.options
           /\ arg' = r.options
           /\ last' = Last("new", cls, call.form, 0, FALSE, <<>>)
    /\ UNCHANGED <<json, parsed, assigned, appended>>

NextChain ==
    \/ /\ Fresh
       /\ \E cls \in ChainClasses, withStack \in BOOLEAN : StartChain(cls, withStack)
    \/ \E cls \in ChainClasses, withStack \in BOOLEAN : Wrap(cls, withStack)

SpecChain == Init /\ [][NextChain]_vars

(***************************************************************************)
(* An Aggregated instance and its errors collection.                       *)
(***************************************************************************)
Arrays ==
    {<<>>, <<InnerError>>, <<InnerAggregated>>, <<NotAnError>>,
     <<InnerError, InnerAggregated>>, <<InnerError, NotAnError>>}

\* what add and the errors setter are given: an array, or a single value
Arguments ==
    {[isArray |-> TRUE, items |-> a] : a \in Arrays}
    \cup {[isArray |-> FALSE, items |-> <<x>>] : x \in {InnerError, NotAnError}}

AggregatedCalls ==
    {Call("none", "", EmptyMap)}
    \cup {Call("options", "", [errors |-> a]) : a \in Arrays}
    \cup {Call("both", "many", [underlying |-> u]) : u \in {InnerError, InnerAggregated}}
    \cup {Call("both", "many", [underlying |-> InnerAggregated, errors |-> a]) :
             a \in Arrays}

\* err = new Aggregated(...call)
NewAggregated(call) ==
    LET r == New("Aggregated", call, <<"at caller">>)
    IN  /\ err' = r.inst
        /\ arg0' = IF PassesOptions(call) THEN call.options ELSE EmptyMap
        /\ arg' = IF PassesOptions(call) THEN r.options ELSE EmptyMap
        /\ last' = Last("new", "Aggregated", call.form, 0, FALSE,
                        IF Has(call.options, "errors") THEN call.options.errors
                        ELSE <<>>)
        /\ assigned' = r.inst.errors
        /\ appended' = <<>>
        /\ json' = NoJSON
        /\ UNCHANGED parsed

\* err.add(error)
AddErrors(error) ==
    /\ err.type = "Aggregated"
    /\ ~json.done
    /\ Len(err.errors) + Len(error.items) <= MaxErrors
    /\ LET r == Add(err, error)
       IN  /\ err' = r.inst
           /\ last' = Last("add", "Aggregated", "none", 0, r.threw, error.items)
           /\ appended' = IF r.threw THEN appended ELSE appended \o error.items
    /\ json' = NoJSON
    /\ UNCHANGED <<arg0, arg, parsed, assigned>>

\* err.errors = errors
AssignErrors(errors) ==
    /\ err.type = "Aggregated"
    /\ ~json.done
    /\ LET r == SetErrors(err, errors)
       IN  /\ err' = r.inst
           /\ last' = Last(IF errors.isArray THEN "set" ELSE "setSingle",
                           "Aggregated", "none", 0, r.threw, errors.items)
           /\ assigned' = IF r.threw THEN assigned ELSE errors.items
           /\ appended' = IF r.threw THEN appended ELSE <<>>
    /\ json' = NoJSON
    /\ UNCHANGED <<arg0, arg, parsed>>

NextAggregated ==
    \/ /\ Fresh
       /\ \E call \in AggregatedCalls : NewAggregated(call)
    \/ \E error \in Arguments : AddErrors(error)
    \/ \E errors \in Arguments : AssignErrors(errors)
    \/ \E includeStack \in BOOLEAN : Serialize(includeStack)

SpecAggregated == Init /\ [][NextAggregated]_vars

(***************************************************************************)
(* The name table of the documentation (wire name, variant, default        *)
(* status), against which the claims below are stated.                     *)
(***************************************************************************)
NameTable ==
    {[name |-> NotAuthorizedName, type |-> "NotAuthorized", status |-> 401],
     [name |-> PaymentRequiredName, type |-> "PaymentRequired", status |-> 402],
     [name |-> ForbiddenName, type |-> "Forbidden", status |-> 403],
     [name |-> NotFoundName, type |-> "NotFound", status |-> 404],
     [name |-> ConflictName, type |-> "Conflict", status |-> 409],
     [name |-> MethodNotAllowedName, type |-> "MethodNotAllowed", status |-> 405],
     [name |-> BadRequestName, type |-> "BadRequest", status |-> 400],
     [name |-> TooManyRequestsName, type |-> "TooManyRequests", status |-> 429],
     [name |-> PayloadTooLargeName, type |-> "PayloadTooLarge", status |-> 413],
     [name |-> InternalErrorName, type |-> "InternalError", status |-> 500],
     [name |-> NotImplementedName, type |-> "NotImplemented", status |-> 501],
     [name |-> ServiceUnavailableName, type |-> "ServiceUnavailable", status |-> 503],
     [name |-> AggregatedName, type |-> "Aggregated", status |-> 400]}

TableRow(cls) == CHOOSE r \in NameTable : r.type = cls

TableType(name) ==
    IF \E r \in NameTable : r.name = name
    THEN (CHOOSE r \in NameTable : r.name = name).type
    ELSE "ApiError"

DefaultStatus(cls) == IF cls = "ApiError" THEN 500 ELSE TableRow(cls).status

\* a and b agree on the optional field k
SameField(a, b, k) == (Has(a, k) <=> Has(b, k)) /\ (Has(a, k) => a[k] = b[k])

Constructed == last.op = "new"

Parsed == last.op \in {"parse", "parseData"}

(***************************************************************************)
(* C1                                                                      *)
(***************************************************************************)
\* parsed is ApiError.parse(err.toJSON({includeStack: true}), err.statusCode,
\* origin) for an instance err of a variant
RoundTrip ==
    /\ last.op = "parse"
    /\ json.includeStack
    /\ err.type \in Variants
    /\ last.statusCode = err.statusCode

RoundTripSame ==
    /\ parsed.type = err.type
    /\ SameField(parsed, err, "message")
    /\ SameField(parsed, err, "entity")
    /\ SameField(parsed, err, "keyPath")
    /\ Stacked(parsed) = Stacked(err)

\* C1 as stated: the round trip of every variant instance, built with any
\* accepted options, returns an instance of the same variant type with the
\* same message, entity, keyPath and structured stack.
C1_RoundTrip == RoundTrip => RoundTripSame

\* err's keyPath is absent, or a non-empty sequence of segments without dots
KeyPathSurvives(e) ==
    Has(e, "keyPath") =>
        /\ Len(e.keyPath.segs) > 0
        /\ \A i \in DOMAIN e.keyPath.segs :
               \A j \in DOMAIN e.keyPath.segs[i] : e.keyPath.segs[i][j] # "."

\* the name err puts on the wire is the wire name of err's own variant
SerializesOwnName(e) ==
    /\ json.done
    /\ ~json.threw
    /\ Has(json.value, "name")
    /\ json.value.name = TableRow(e.type).name

\* C1 amended: the round trip returns an instance of the same variant type
\* with the same message, entity, keyPath and structured stack for every
\* variant instance whose serialized name is its own variant's wire name and
\* whose keyPath is absent or a non-empty sequence of dot-free segments.
C1_RoundTripOfOwnName ==
    (RoundTrip /\ SerializesOwnName(err) /\ KeyPathSurvives(err)) => RoundTripSame

C1_Witness ==
    /\ RoundTrip
    /\ SerializesOwnName(err)
    /\ err.type = "NotFound"
    /\ Has(err, "keyPath")
    /\ Len(err.keyPath.segs) = 2
    /\ KeyPathSurvives(err)
    /\ Has(err, "entity")
    /\ RoundTripSame

(***************************************************************************)
(* C2                                                                      *)
(***************************************************************************)
IsApiError(x) == x.type \in Classes

AllApiErrors(items) == \A i \in DOMAIN items : IsApiError(items[i])

\* C2: every element of an Aggregated's errors is an ApiError, and an
\* operation (construction, add, errors =) that is handed a violating input
\* throws.
C2_ErrorsAreApiErrors ==
    Has(err, "errors") =>
        /\ AllApiErrors(err.errors)
        /\ (last.op \in {"new", "add", "set"} /\ ~AllApiErrors(last.input))
               => last.threw

(***************************************************************************)
(* C3                                                                      *)
(***************************************************************************)
\* the last error of the underlying chain that starts at e
RECURSIVE Root(_)
Root(e) == IF Has(e, "underlying") THEN Root(e.underlying) ELSE e

\* the structured stack of e itself: the pre-supplied one, else the captured
OwnStack(e) == IF Has(e, "stacked") THEN e.stacked ELSE StackToJSON(e.stack)

\* C3: for a chain of any length, actual is the root of the chain and
\* stacked is computed from the root.
C3_ActualIsRoot ==
    err # NoValue =>
        /\ Actual(err) = Root(err)
        /\ Stacked(err) = OwnStack(Root(err))

(***************************************************************************)
(* C4                                                                      *)
(***************************************************************************)
\* C4 as stated: the statusCode is the one supplied in the options when one
\* is supplied, and the type's default otherwise.
C4_StatusCodeSuppliedOrDefault ==
    Constructed =>
        err.statusCode = IF Has(arg0, "statusCode") THEN arg0.statusCode
                         ELSE DefaultStatus(last.cls)

\* C4 amended: the statusCode of an instance of a variant is the variant's
\* default whatever statusCode the options supply; the statusCode of an
\* instance of the base type is the supplied one when one is supplied and is
\* not 0, and 500 otherwise.
C4_StatusCodeOfVariantIsFixed ==
    Constructed =>
        err.statusCode =
            IF last.cls \in Variants THEN DefaultStatus(last.cls)
            ELSE IF Has(arg0, "statusCode") /\ arg0.statusCode # 0
                 THEN arg0.statusCode
                 ELSE 500

C4_Witness ==
    /\ Constructed
    /\ last.cls = "NotFound"
    /\ Has(arg0, "statusCode")
    /\ arg0.statusCode = 418
    /\ err.statusCode = 404

(***************************************************************************)
(* C5                                                                      *)
(***************************************************************************)
\* C5: an overridable variant constructed with a non-empty name has that
\* name; NotAuthorized, PaymentRequired and Forbidden have their fixed wire
\* name whatever name is supplied.
C5_NameOverride ==
    Constructed =>
        /\ (/\ last.cls \in {"NotFound", "Conflict", "MethodNotAllowed",
                             "BadRequest", "TooManyRequests", "PayloadTooLarge",
                             "InternalError", "NotImplemented",
                             "ServiceUnavailable", "Aggregated"}
            /\ Has(arg0, "name")
            /\ Len(arg0.name) > 0)
               => (Has(err, "name") /\ err.name = arg0.name)
        /\ last.cls \in {"NotAuthorized", "PaymentRequired", "Forbidden"}
               => (Has(err, "name") /\ err.name = TableRow(last.cls).name)

C5_Witness ==
    /\ Constructed
    /\ last.cls = "Conflict"
    /\ Has(arg0, "name")
    /\ arg0.name = CustomName
    /\ err.name = CustomName

(***************************************************************************)
(* C6                                                                      *)
(***************************************************************************)
\* C6 as stated: parse returns an instance of the type the name table gives
\* data.name, BadRequest when data.name is absent, the base type for any
\* other name, and then with the passed statusCode and data.message.
C6_ParseFollowsNameTable ==
    Parsed =>
        /\ parsed.type = IF Has(arg0, "name") THEN TableType(arg0.name)
                         ELSE "BadRequest"
        /\ parsed.type = "ApiError" =>
               /\ parsed.statusCode = last.statusCode
               /\ SameField(parsed, arg0, "message")

\* C6 amended: parse returns an instance of the type the name table gives
\* data.name, BadRequest when data.name is absent or the empty string, the
\* base type for any other name, and then with data.message and with the
\* passed statusCode, or 500 when the passed statusCode is 0.
C6_ParseFollowsNameTableOrDefaults ==
    Parsed =>
        /\ parsed.type = IF Has(arg0, "name") /\ Len(arg0.name) > 0
                         THEN TableType(arg0.name)
                         ELSE "BadRequest"
        /\ parsed.type = "ApiError" =>
               /\ parsed.statusCode = IF last.statusCode # 0 THEN last.statusCode
                                      ELSE 500
               /\ SameField(parsed, arg0, "message")

C6_Witness ==
    /\ last.op = "parseData"
    /\ Has(arg0, "name")
    /\ arg0.name = UnknownName
    /\ Has(arg0, "message")
    /\ last.statusCode = 418
    /\ parsed.type = "ApiError"
    /\ parsed.statusCode = 418
    /\ parsed.message = "x"

(***************************************************************************)
(* C7                                                                      *)
(***************************************************************************)
\* C7: errors is the last successfully assigned (or initial) collection
\* followed by the elements of every later successful add, in order; a call
\* that throws leaves errors as it was.
C7_ErrorsHistory ==
    Has(err, "errors") => err.errors = assigned \o appended

C7_Witness ==
    /\ Has(err, "errors")
    /\ last.op = "add"
    /\ last.threw
    /\ Len(last.input) = 2
    /\ IsApiError(last.input[1])
    /\ ~IsApiError(last.input[2])
    /\ Len(assigned) > 0
    /\ Len(appended) > 0
    /\ err.errors = assigned \o appended

(***************************************************************************)
(* C8                                                                      *)
(***************************************************************************)
\* C8: toJSON never throws, with includeStack true or false, on any
\* instance construction, add or the errors setter can produce.
C8_ToJSONNeverThrows == json.done => ~json.threw

(***************************************************************************)
(* C9                                                                      *)
(***************************************************************************)
ReservedKeys ==
    {"message", "name", "entity", "statusCode", "stack", "keyPath", "origin",
     "underlying"}

====
